---------------------------- MODULE Spec2Model ----------------------------
(***************************************************************************)
(* Plan progression, vocabulary mastery, cycle completion and refresh      *)
(* tokens of the talkfiesta backend (app/services/*.py), as a state        *)
(* machine over the rows of the relational store.  One action is one       *)
(* service call, run to its end.                                           *)
(*                                                                         *)
(* Representation                                                          *)
(*   - a nullable column holds Null (<<>>) or Some(x) (<<x>>);             *)
(*   - scores and percentages are kept in hundredths (80.5 is 8050);       *)
(*   - a timestamp is a number of clock ticks, TicksPerHour ticks to the   *)
(*     hour; every datetime.utcnow() of a handler is one read of the       *)
(*     clock, and the clock never runs backwards;                          *)
(*   - a plan is keyed by <<user, plan type, cycle>> (uq_user_plan_cycle), *)
(*     a daily activity by <<plan key, day number>> (uq_plan_day), a       *)
(*     user-vocabulary row by <<user, day number>>;                        *)
(*   - of the submission and practice-session rows the store keeps which   *)
(*     table holds a row of which user;                                    *)
(*   - for the questions about requests running side by side a handler is  *)
(*     cut at its commits and each request runs in a session of its own.   *)
(***************************************************************************)
EXTENDS Integers, Sequences, FiniteSets, TLC

VARIABLES
    plans,              \* user_plans with their daily_activities
    vocabulary,         \* user_vocabulary rows
    daily,              \* today's daily_progress row of each user
    cycle_completions,  \* cycle_completions rows
    submissions,        \* speaking_submissions, writing_submissions and
                        \* vocabulary_practice_sessions: <<table, user_id>>
                        \* of their rows
    sessions,           \* the requests in flight, each in a session of its own
    refresh_tokens,     \* refresh_tokens rows, by their token string
    now,                \* the clock: the last value utcnow() returned
    last                \* the last service call and how it ended

vars == <<plans, vocabulary, daily, cycle_completions, submissions, sessions,
          refresh_tokens, now, last>>

---------------------------------------------------------------------------
(* Program constants *)

NumDays == 21
MinCycle == 1
MaxCycle == 5
MaxMastery == 5
SpeakingOverallScore == 8050
SpeakingMockDuration == 45
WritingOverallScore == 8375
VocabularyScoreCorrect == 10000
VocabularyScoreWrong == 5000
RefreshTokenExpireDays == 7

PlanTypes == {"SPEAKING", "VOCABULARY", "WRITING"}
Days == 1..NumDays

Null == <<>>
Some(x) == <<x>>
Val(o) == o[1]

Min(S) == CHOOSE x \in S : \A y \in S : x <= y

---------------------------------------------------------------------------
(* Bounds of the model *)

TicksPerHour == 2       \* resolution of the model's clock
MaxNow == 2             \* the clock is read at most up to this tick
MaxAttempts == 2        \* attempts per daily activity in Spec
MaxPractice == 2        \* vocabulary practices in Spec
MaxVocabPractice == 7   \* vocabulary practices in SpecVocab

Users == {"u1"}
Words == {"w1"}

---------------------------------------------------------------------------
(* Rows *)

NewActivityAllAvailable(day) ==
    [status |-> "AVAILABLE",
     score |-> Null,
     time_spent_seconds |-> 0,
     attempts_count |-> 0]

NewActivity(day) ==
    [status |-> IF day = 1 THEN "AVAILABLE" ELSE "LOCKED",
     score |-> Null,
     time_spent_seconds |-> 0,
     attempts_count |-> 0]

NewPlanNotStarted ==
    [status |-> "NOT_STARTED",
     current_day |-> 1,
     completion_percentage |-> 0,
     completed_at |-> Null,
     activities |-> [d \in Days |-> NewActivity(d)]]

NewPlan ==
    [status |-> "IN_PROGRESS",
     current_day |-> 1,
     completion_percentage |-> 0,
     completed_at |-> Null,
     activities |-> [d \in Days |-> NewActivity(d)]]

NewUserVocabulary(word) ==
    [word_id |-> word,
     status |-> "NEW",
     mastery_level |-> 0,
     times_reviewed |-> 0,
     times_practiced |-> 0,
     last_reviewed_at |-> Null,
     next_review_at |-> Null,
     mastered_at |-> Null]

NewDailyProgress ==
    [speaking_completed |-> FALSE,
     vocabulary_completed |-> FALSE,
     writing_completed |-> FALSE]

\* a service call: the operation, the user_id it was given, an argument or
\* value of it and how it ended
Call(op, user, arg, result) ==
    [op |-> op, user_id |-> user, arg |-> arg, result |-> result]

PlanKey(user, type, cycle) == <<user, type, cycle>>
Owner(key) == key[1]
TypeOf(key) == key[2]
CycleOf(key) == key[3]

Init ==
    /\ plans = << >>
    /\ vocabulary = << >>
    /\ daily = << >>
    /\ cycle_completions = << >>
    /\ submissions = {}
    /\ sessions = << >>
    /\ refresh_tokens = << >>
    /\ now = 0
    /\ last = Call("none", "", Null, "ok")

---------------------------------------------------------------------------
(* PlanService *)

CompletedCount(plan) ==
    Cardinality({d \in Days : plan.activities[d].status = "COMPLETED"})

\* (completed_count / 21) * 100, in hundredths of a percent
PercentOfDaysLeft(count) == ((NumDays - count) * 10000) \div NumDays

PercentOf(count) == (count * 10000) \div NumDays

NextIncompleteDayByCount(plan) ==
    IF CompletedCount(plan) < NumDays THEN CompletedCount(plan) + 1 ELSE NumDays

NextIncompleteDay(plan) ==
    LET open == {d \in Days : plan.activities[d].status # "COMPLETED"}
    IN  IF open # {} THEN Min(open) ELSE NumDays

\* update_plan_progress; t is what utcnow() returns at line 253
UpdatePlanProgress(plan, t) ==
    LET completed_count == CompletedCount(plan)
    IN  [plan EXCEPT
            !.completion_percentage = PercentOf(completed_count),
            !.status = IF completed_count = NumDays THEN "COMPLETED"
                       ELSE IF completed_count > 0 THEN "IN_PROGRESS"
                       ELSE @,
            !.completed_at = IF completed_count = NumDays THEN Some(t) ELSE @,
            !.current_day = NextIncompleteDay(plan)]

StartPlanUnvalidated(user, type, cycle) ==
    /\ UNCHANGED refresh_tokens
    /\ UNCHANGED <<vocabulary, daily, cycle_completions, submissions,
                   sessions, now>>
    /\ IF PlanKey(user, type, cycle) \in DOMAIN plans
       THEN /\ last' = Call("start_plan", user, Some(cycle), "409_CONFLICT")
            /\ UNCHANGED plans
       ELSE /\ plans' = plans @@ (PlanKey(user, type, cycle) :> NewPlan)
            /\ last' = Call("start_plan", user, Some(cycle), "ok")

StartPlan(user, type, cycle) ==
    /\ UNCHANGED refresh_tokens
    /\ UNCHANGED <<vocabulary, daily, cycle_completions, submissions,
                   sessions, now>>
    /\ IF cycle < MinCycle \/ cycle > MaxCycle
       THEN /\ last' = Call("start_plan", user, Some(cycle), "400_BAD_REQUEST")
            /\ UNCHANGED plans
       ELSE IF PlanKey(user, type, cycle) \in DOMAIN plans
       THEN /\ last' = Call("start_plan", user, Some(cycle), "409_CONFLICT")
            /\ UNCHANGED plans
       ELSE /\ plans' = plans @@ (PlanKey(user, type, cycle) :> NewPlan)
            /\ last' = Call("start_plan", user, Some(cycle), "ok")

\* complete_activity, lines 300-305: the activity row after the update
CompletedActivity(activity, score, time_spent) ==
    [activity EXCEPT
        !.status = "COMPLETED",
        !.score = Some(score),
        !.time_spent_seconds = @ + time_spent,
        !.attempts_count = @ + 1]

\* complete_activity, lines 307-316: the following day is unlocked
UnlockNext(activities, day) ==
    IF day + 1 \in Days /\ activities[day + 1].status = "LOCKED"
    THEN [activities EXCEPT ![day + 1].status = "AVAILABLE"]
    ELSE activities

CompleteActivity(key, day, score, time_spent, t) ==
    /\ UNCHANGED refresh_tokens
    /\ UNCHANGED <<vocabulary, daily, cycle_completions, submissions, sessions>>
    /\ IF key \notin DOMAIN plans \/ day \notin Days
       THEN /\ last' = Call("complete_activity", "", Null, "404_NOT_FOUND")
            /\ UNCHANGED <<plans, now>>
       ELSE LET plan == plans[key]
                done == [plan.activities EXCEPT
                            ![day] = CompletedActivity(@, score, time_spent)]
                after == [plan EXCEPT !.activities = UnlockNext(done, day)]
            IN  /\ plans' = [plans EXCEPT ![key] = UpdatePlanProgress(after, t)]
                /\ now' = t
                /\ last' = Call("complete_activity", "", Some(score), "ok")

---------------------------------------------------------------------------
(* ProgressService *)

\* update_daily_progress: the flags of today's row
UpdateDailyProgress(rows, user, activity_type) ==
    LET row == IF user \in DOMAIN rows THEN rows[user] ELSE NewDailyProgress
        upd == CASE activity_type = "SPEAKING" ->
                        [row EXCEPT !.speaking_completed = TRUE]
                 [] activity_type = "VOCABULARY" ->
                        [row EXCEPT !.vocabulary_completed = TRUE]
                 [] activity_type = "WRITING" ->
                        [row EXCEPT !.writing_completed = TRUE]
                 [] OTHER -> row
    IN  [u \in DOMAIN rows \cup {user} |-> IF u = user THEN upd ELSE rows[u]]

---------------------------------------------------------------------------
(* SpeakingService and WritingService *)

\* the activity update of a speaking or writing submission
\* (speaking_service.py 253-262, writing_service.py 259-267)
AttemptedActivityReopening(activity, score, time_spent) ==
    LET counted == [activity EXCEPT
                        !.attempts_count = @ + 1,
                        !.time_spent_seconds = @ + time_spent]
    IN  IF \/ counted.status # "COMPLETED"
           \/ counted.score = Null
           \/ score > Val(counted.score)
        THEN [counted EXCEPT !.status = "COMPLETED", !.score = Some(score)]
        ELSE [counted EXCEPT !.status = "AVAILABLE"]

AttemptedActivity(activity, score, time_spent) ==
    LET counted == [activity EXCEPT
                        !.attempts_count = @ + 1,
                        !.time_spent_seconds = @ + time_spent]
    IN  IF \/ counted.status # "COMPLETED"
           \/ counted.score = Null
           \/ score > Val(counted.score)
        THEN [counted EXCEPT !.status = "COMPLETED", !.score = Some(score)]
        ELSE counted

SubmitSpeakingExercise(user, key, day, t) ==
    /\ UNCHANGED refresh_tokens
    /\ UNCHANGED <<vocabulary, cycle_completions, sessions>>
    /\ IF key \notin DOMAIN plans \/ day \notin Days
       THEN /\ last' = Call("submit_speaking_exercise", user,
                            Null, "404_NOT_FOUND")
            /\ UNCHANGED <<plans, daily, submissions, now>>
       ELSE IF Owner(key) # user
       THEN /\ last' = Call("submit_speaking_exercise", user,
                            Null, "403_FORBIDDEN")
            /\ UNCHANGED <<plans, daily, submissions, now>>
       ELSE LET plan == plans[key]
                after == [plan EXCEPT !.activities[day] =
                            AttemptedActivity(@, SpeakingOverallScore,
                                              SpeakingMockDuration)]
            IN  /\ submissions' = submissions \cup
                                    {<<"speaking_submissions", user>>}
                /\ plans' = [plans EXCEPT ![key] = UpdatePlanProgress(after, t)]
                /\ daily' = UpdateDailyProgress(daily, user, "SPEAKING")
                /\ now' = t
                /\ last' = Call("submit_speaking_exercise", user,
                                Some(SpeakingOverallScore), "ok")

SubmitWritingUnowned(user, key, day, time_spent, t) ==
    /\ UNCHANGED refresh_tokens
    /\ UNCHANGED <<vocabulary, cycle_completions, sessions>>
    /\ IF key \notin DOMAIN plans \/ day \notin Days
       THEN /\ last' = Call("submit_writing", user, Null, "404_NOT_FOUND")
            /\ UNCHANGED <<plans, daily, submissions, now>>
       ELSE LET plan == plans[key]
                after == [plan EXCEPT !.activities[day] =
                            AttemptedActivity(@, WritingOverallScore, time_spent)]
            IN  /\ submissions' = submissions \cup
                                    {<<"writing_submissions", user>>}
                /\ plans' = [plans EXCEPT ![key] = UpdatePlanProgress(after, t)]
                /\ daily' = UpdateDailyProgress(daily, user, "WRITING")
                /\ now' = t
                /\ last' = Call("submit_writing", user,
                                Some(WritingOverallScore), "ok")

SubmitWriting(user, key, day, time_spent, t) ==
    /\ UNCHANGED refresh_tokens
    /\ UNCHANGED <<vocabulary, cycle_completions, sessions>>
    /\ IF key \notin DOMAIN plans \/ day \notin Days
       THEN /\ last' = Call("submit_writing", user, Null, "404_NOT_FOUND")
            /\ UNCHANGED <<plans, daily, submissions, now>>
       ELSE IF Owner(key) # user
       THEN /\ last' = Call("submit_writing", user, Null, "403_FORBIDDEN")
            /\ UNCHANGED <<plans, daily, submissions, now>>
       ELSE LET plan == plans[key]
                after == [plan EXCEPT !.activities[day] =
                            AttemptedActivity(@, WritingOverallScore, time_spent)]
            IN  /\ submissions' = submissions \cup
                                    {<<"writing_submissions", user>>}
                /\ plans' = [plans EXCEPT ![key] = UpdatePlanProgress(after, t)]
                /\ daily' = UpdateDailyProgress(daily, user, "WRITING")
                /\ now' = t
                /\ last' = Call("submit_writing", user,
                                Some(WritingOverallScore), "ok")

---------------------------------------------------------------------------
(* VocabularyService *)

\* get_vocabulary_word_for_day; pick is the row order_by(func.random()).first()
\* returns: a word of the cycle, or Null when the cycle has no word
GetVocabularyWordForDay(user, day_number, pick) ==
    /\ UNCHANGED refresh_tokens
    /\ UNCHANGED <<plans, daily, cycle_completions, submissions, sessions, now>>
    /\ IF <<user, day_number>> \in DOMAIN vocabulary
       THEN /\ last' = Call("get_vocabulary_word_for_day", user, Null, "ok")
            /\ UNCHANGED vocabulary
       ELSE IF pick = Null
       THEN /\ last' = Call("get_vocabulary_word_for_day", user, Null, "None")
            /\ UNCHANGED vocabulary
       ELSE IF \E k \in DOMAIN vocabulary :
                    k[1] = user /\ vocabulary[k].word_id = Val(pick)
       THEN \* uq_user_word rejects the insert
            /\ last' = Call("get_vocabulary_word_for_day", user,
                            Null, "IntegrityError")
            /\ UNCHANGED vocabulary
       ELSE /\ vocabulary' = vocabulary @@
                    (<<user, day_number>> :> NewUserVocabulary(Val(pick)))
            /\ last' = Call("get_vocabulary_word_for_day", user, Null, "ok")

MasteryAfterUnclamped(level, is_correct) ==
    IF is_correct THEN level + 1 ELSE level - 1

MasteryAfterNoDemotion(level, is_correct) ==
    IF is_correct
    THEN IF level < MaxMastery THEN level + 1 ELSE level
    ELSE level

\* lines 313-315 and 326-328: the mastery level after one result
MasteryAfter(level, is_correct) ==
    IF is_correct
    THEN IF level < MaxMastery THEN level + 1 ELSE level
    ELSE IF level > 0 THEN level - 1 ELSE level

\* lines 317-324 and 330-332: status and mastered_at after the level update;
\* t is what utcnow() returns at line 324
StatusAfter(uv, is_correct, t) ==
    IF is_correct
    THEN IF uv.mastery_level = 1 THEN [uv EXCEPT !.status = "LEARNING"]
         ELSE IF uv.mastery_level = 3 THEN [uv EXCEPT !.status = "REVIEWING"]
         ELSE IF uv.mastery_level = 5
              THEN [uv EXCEPT !.status = "MASTERED", !.mastered_at = Some(t)]
         ELSE uv
    ELSE IF uv.mastery_level = 0 THEN [uv EXCEPT !.status = "NEW"]
         ELSE uv

ReviewDelayOfPreviousStep(level) ==
    CASE level = 0 -> 1 * TicksPerHour
      [] level = 1 -> 1 * TicksPerHour
      [] level = 2 -> 6 * TicksPerHour
      [] level = 3 -> 24 * TicksPerHour
      [] level = 4 -> 3 * 24 * TicksPerHour
      [] level = 5 -> 7 * 24 * TicksPerHour

\* lines 335-346: timedelta of the next review, in ticks
ReviewDelay(level) ==
    CASE level = 0 -> 1 * TicksPerHour
      [] level = 1 -> 6 * TicksPerHour
      [] level = 2 -> 24 * TicksPerHour
      [] level = 3 -> 3 * 24 * TicksPerHour
      [] level = 4 -> 7 * 24 * TicksPerHour
      [] level = 5 -> 30 * 24 * TicksPerHour

\* lines 334-346; t is what utcnow() returns there
ScheduledReview(uv, t) ==
    IF uv.mastery_level \in 0..5
    THEN [uv EXCEPT !.next_review_at = Some(t + ReviewDelay(uv.mastery_level))]
    ELSE uv

\* lines 308-346: the user_vocabulary row after one practice result;
\* clk[1], clk[2], clk[3] are the reads of the clock at lines 310, 324, 336-346
PracticedVocabulary(uv, is_correct, clk) ==
    LET counted == [uv EXCEPT
                        !.times_practiced = @ + 1,
                        !.last_reviewed_at = Some(clk[1])]
        levelled == [counted EXCEPT
                        !.mastery_level = MasteryAfter(@, is_correct)]
    IN  ScheduledReview(StatusAfter(levelled, is_correct, clk[2]), clk[3])

\* lines 350-357: the activity update of a vocabulary practice
PracticedActivity(activity, is_correct, time_taken) ==
    LET counted == [activity EXCEPT
                        !.attempts_count = @ + 1,
                        !.time_spent_seconds = @ + time_taken]
    IN  IF counted.status # "COMPLETED" \/ counted.score = Null
        THEN [counted EXCEPT
                !.status = "COMPLETED",
                !.score = Some(IF is_correct THEN VocabularyScoreCorrect
                                             ELSE VocabularyScoreWrong)]
        ELSE counted

\* clk[4] is the read of the clock in update_plan_progress
SubmitVocabularyPractice(user, uvkey, key, day, is_correct, time_taken, clk) ==
    /\ UNCHANGED refresh_tokens
    /\ UNCHANGED <<cycle_completions, sessions>>
    /\ IF uvkey \notin DOMAIN vocabulary \/ uvkey[1] # user
       THEN /\ last' = Call("submit_vocabulary_practice", user,
                            Null, "404_NOT_FOUND")
            /\ UNCHANGED <<plans, vocabulary, daily, submissions, now>>
       ELSE IF key \notin DOMAIN plans \/ day \notin Days
       THEN /\ last' = Call("submit_vocabulary_practice", user,
                            Null, "404_NOT_FOUND")
            /\ UNCHANGED <<plans, vocabulary, daily, submissions, now>>
       ELSE IF Owner(key) # user
       THEN /\ last' = Call("submit_vocabulary_practice", user,
                            Null, "403_FORBIDDEN")
            /\ UNCHANGED <<plans, vocabulary, daily, submissions, now>>
       ELSE LET plan == plans[key]
                after == [plan EXCEPT !.activities[day] =
                            PracticedActivity(@, is_correct, time_taken)]
            IN  /\ submissions' = submissions \cup
                                    {<<"vocabulary_practice_sessions", user>>}
                /\ vocabulary' = [vocabulary EXCEPT ![uvkey] =
                                    PracticedVocabulary(@, is_correct, clk)]
                /\ plans' = [plans EXCEPT ![key] =
                                UpdatePlanProgress(after, clk[4])]
                /\ daily' = UpdateDailyProgress(daily, user, "VOCABULARY")
                /\ now' = clk[4]
                /\ last' = Call("submit_vocabulary_practice", user,
                                Some(is_correct), "ok")

---------------------------------------------------------------------------
(* CycleService *)

\* cycle_service.py imports desc from sqlalchemy and nothing else of it: the
\* name and_ its first query uses is bound nowhere in the module
AndIsBound == FALSE

PlansOfCycle(user, cycle) ==
    {k \in DOMAIN plans : Owner(k) = user /\ CycleOf(k) = cycle}

CompletionsOf(user, cycle) ==
    {i \in DOMAIN cycle_completions :
        /\ cycle_completions[i].user_id = user
        /\ cycle_completions[i].cycle_number = cycle}

\* the row complete_cycle builds at lines 114-119: started_at is given no value
NewCycleCompletion(user, cycle, t) ==
    [user_id |-> user,
     cycle_number |-> cycle,
     started_at |-> Null,
     completed_at |-> Some(t)]

\* the INSERT is refused when started_at is NULL (nullable=False) or when the
\* user already has a row for the cycle (uq_user_cycle)
RejectedByCycleCompletions(row) ==
    \/ row.started_at = Null
    \/ CompletionsOf(row.user_id, row.cycle_number) # {}

\* the plans the loop of lines 106-111 can stop at
IncompletePlans(user, cycle) ==
    {k \in PlansOfCycle(user, cycle) : plans[k].status # "COMPLETED"}

CompleteCycleOfExistingPlans(user, cycle, t) ==
    /\ UNCHANGED refresh_tokens
    /\ UNCHANGED <<plans, vocabulary, daily, submissions, sessions>>
    /\ IF CompletionsOf(user, cycle) # {}
       THEN /\ last' = Call("complete_cycle", user, Null, "400_BAD_REQUEST")
            /\ UNCHANGED <<cycle_completions, now>>
       ELSE IF PlansOfCycle(user, cycle) = {}
       THEN /\ last' = Call("complete_cycle", user, Null, "404_NOT_FOUND")
            /\ UNCHANGED <<cycle_completions, now>>
       ELSE IF IncompletePlans(user, cycle) # {}
       THEN /\ \E k \in IncompletePlans(user, cycle) :
                    last' = Call("complete_cycle", user, Some(TypeOf(k)),
                                 "400_BAD_REQUEST")
            /\ UNCHANGED <<cycle_completions, now>>
       ELSE /\ cycle_completions' = Append(cycle_completions,
                                           NewCycleCompletion(user, cycle, t))
            /\ now' = t
            /\ last' = Call("complete_cycle", user, Null, "ok")

CompleteCycle(user, cycle, t) ==
    /\ UNCHANGED refresh_tokens
    /\ UNCHANGED <<plans, vocabulary, daily, submissions, sessions>>
    /\ IF ~AndIsBound
       THEN /\ last' = Call("complete_cycle", user, Null, "NameError")
            /\ UNCHANGED <<cycle_completions, now>>
       ELSE IF CompletionsOf(user, cycle) # {}
       THEN /\ last' = Call("complete_cycle", user, Null, "400_BAD_REQUEST")
            /\ UNCHANGED <<cycle_completions, now>>
       ELSE IF PlansOfCycle(user, cycle) = {}
       THEN /\ last' = Call("complete_cycle", user, Null, "404_NOT_FOUND")
            /\ UNCHANGED <<cycle_completions, now>>
       ELSE IF IncompletePlans(user, cycle) # {}
       THEN /\ \E k \in IncompletePlans(user, cycle) :
                    last' = Call("complete_cycle", user, Some(TypeOf(k)),
                                 "400_BAD_REQUEST")
            /\ UNCHANGED <<cycle_completions, now>>
       ELSE IF RejectedByCycleCompletions(NewCycleCompletion(user, cycle, t))
       THEN /\ last' = Call("complete_cycle", user, Null, "IntegrityError")
            /\ now' = t
            /\ UNCHANGED cycle_completions
       ELSE /\ cycle_completions' = Append(cycle_completions,
                                           NewCycleCompletion(user, cycle, t))
            /\ now' = t
            /\ last' = Call("complete_cycle", user, Null, "ok")

---------------------------------------------------------------------------
(* AuthService: the refresh_tokens rows.  A token string is determined by    *)
(* its payload: the user it was created for ("sub") and the rest (the       *)
(* expiry claim), which is a serial here.  The users exist and are active;  *)
(* whether a password or a reset token is the right one is an input.        *)

Token(user, serial) == <<user, serial>>

SubOf(token) == token[1]

NewRefreshToken(user, t) ==
    [user_id |-> user,
     is_revoked |-> FALSE,
     expires_at |-> t + RefreshTokenExpireDays * 24 * TicksPerHour]

\* uq on refresh_tokens.token
RejectedByRefreshTokens(token) == token \in DOMAIN refresh_tokens

SavedRefreshToken(rows, user, token, t) ==
    [k \in DOMAIN rows \cup {token} |->
        IF k = token THEN NewRefreshToken(user, t) ELSE rows[k]]

LoginUser(user, password_ok, serial, t) ==
    /\ UNCHANGED <<plans, vocabulary, daily, cycle_completions, submissions,
                   sessions>>
    /\ now' = t
    /\ IF ~password_ok
       THEN /\ last' = Call("login_user", user, Null, "401_UNAUTHORIZED")
            /\ UNCHANGED refresh_tokens
       ELSE IF RejectedByRefreshTokens(Token(user, serial))
       THEN /\ last' = Call("login_user", user, Null, "IntegrityError")
            /\ UNCHANGED refresh_tokens
       ELSE /\ refresh_tokens' =
                    SavedRefreshToken(refresh_tokens, user,
                                      Token(user, serial), t)
            /\ last' = Call("login_user", user, Null, "ok")

RevokedOne(rows, user, token) ==
    [k \in DOMAIN rows |->
        IF k = token /\ rows[k].user_id = user
        THEN [rows[k] EXCEPT !.is_revoked = TRUE] ELSE rows[k]]

RevokedAll(rows, user) ==
    [k \in DOMAIN rows |->
        IF rows[k].user_id = user /\ ~rows[k].is_revoked
        THEN [rows[k] EXCEPT !.is_revoked = TRUE] ELSE rows[k]]

\* the serials of the tokens the user has been issued
IssuedTo(rows, user) == {k[2] : k \in {x \in DOMAIN rows : rows[x].user_id = user}}

\* refresh_token_str is Null or Some(token); of a call that revokes all
\* tokens of its user, last keeps which tokens the user had been issued
LogoutUser(user, refresh_token_str) ==
    /\ UNCHANGED <<plans, vocabulary, daily, cycle_completions, submissions,
                   sessions, now>>
    /\ refresh_tokens' =
            IF refresh_token_str # Null
            THEN RevokedOne(refresh_tokens, user, Val(refresh_token_str))
            ELSE RevokedAll(refresh_tokens, user)
    /\ last' = Call("logout_user", user,
                    IF refresh_token_str # Null
                    THEN Null ELSE Some(IssuedTo(refresh_tokens, user)), "ok")

ChangePassword(user, current_ok) ==
    /\ UNCHANGED <<plans, vocabulary, daily, cycle_completions, submissions,
                   sessions, now>>
    /\ IF ~current_ok
       THEN /\ last' = Call("change_password", user, Null, "400_BAD_REQUEST")
            /\ UNCHANGED refresh_tokens
       ELSE /\ refresh_tokens' = RevokedAll(refresh_tokens, user)
            /\ last' = Call("change_password", user,
                            Some(IssuedTo(refresh_tokens, user)), "ok")

\* user is the user whose password_reset_token the request carries
ResetPassword(user, token_ok) ==
    /\ UNCHANGED <<plans, vocabulary, daily, cycle_completions, submissions,
                   sessions, now>>
    /\ IF ~token_ok
       THEN /\ last' = Call("reset_password", user, Null, "400_BAD_REQUEST")
            /\ UNCHANGED refresh_tokens
       ELSE /\ refresh_tokens' = RevokedAll(refresh_tokens, user)
            /\ last' = Call("reset_password", user,
                            Some(IssuedTo(refresh_tokens, user)), "ok")

---------------------------------------------------------------------------
(* Spec: one plan and every operation on its daily activities.  The days of *)
(* RichDays take every operation with every input, up to MaxAttempts        *)
(* attempts each; the other days are completed once each, at or one past    *)
(* the plan's current day, by a speaking submission or by complete_activity.*)

Actor == "u1"
LadderKey == PlanKey(Actor, "SPEAKING", 1)
UvKey == <<Actor, 1>>
CycleInputs == {0, 1, 6}
ActivityScores == {4000, SpeakingOverallScore, 9000}
RichDays == {1}

Rich(key) ==
    {d \in RichDays : plans[key].activities[d].attempts_count < MaxAttempts}

Ladder(key) ==
    {d \in Days \ RichDays :
        /\ d \in {plans[key].current_day, plans[key].current_day + 1}
        /\ plans[key].activities[d].status # "COMPLETED"}

StartPlanStep ==
    \E cycle \in CycleInputs : StartPlan(Actor, "SPEAKING", cycle)

SpeakingStep ==
    \E key \in DOMAIN plans : \E d \in Rich(key) \cup Ladder(key) :
        SubmitSpeakingExercise(Actor, key, d, now)

WritingStep ==
    \E key \in DOMAIN plans : \E d \in Rich(key) :
        SubmitWriting(Actor, key, d, SpeakingMockDuration, now)

CompleteActivityStep ==
    \E key \in DOMAIN plans : \E d \in Rich(key) \cup Ladder(key) :
        \E score \in IF d \in RichDays THEN ActivityScores
                                       ELSE {SpeakingOverallScore} :
            CompleteActivity(key, d, score, SpeakingMockDuration, now)

WordStep == GetVocabularyWordForDay(Actor, 1, Some("w1"))

VocabularyStep ==
    \E key \in DOMAIN plans : \E d \in Rich(key) : \E is_correct \in BOOLEAN :
        /\ UvKey \in DOMAIN vocabulary =>
                vocabulary[UvKey].times_practiced < MaxPractice
        /\ SubmitVocabularyPractice(Actor, UvKey, key, d, is_correct,
                                    SpeakingMockDuration, <<now, now, now, now>>)

Next ==
    \/ StartPlanStep
    \/ SpeakingStep
    \/ WritingStep
    \/ CompleteActivityStep
    \/ WordStep
    \/ VocabularyStep

Spec == Init /\ [][Next]_vars

---------------------------------------------------------------------------
(* SpecVocab: one word practised on the first days of a vocabulary plan,    *)
(* with a clock that may advance between any two reads.                     *)

VocabKey == PlanKey(Actor, "VOCABULARY", 1)
PracticeSeconds == {30}
PracticeDays == {1, 2}
WordDays == {1, 2}

\* the four reads of the clock of one vocabulary practice
ClockReads ==
    {clk \in [1..4 -> now..MaxNow] : \A i \in 1..3 : clk[i] <= clk[i + 1]}

VocabStartPlanStep == StartPlan(Actor, "VOCABULARY", 1)

VocabWordStep ==
    \E d \in WordDays : GetVocabularyWordForDay(Actor, d, Some("w1"))

VocabPracticeStep ==
    \E d \in PracticeDays : \E is_correct \in BOOLEAN :
        \E secs \in PracticeSeconds : \E clk \in ClockReads :
            /\ UvKey \in DOMAIN vocabulary =>
                    vocabulary[UvKey].times_practiced < MaxVocabPractice
            /\ SubmitVocabularyPractice(Actor, UvKey, VocabKey, d, is_correct,
                                        secs, clk)

NextVocab ==
    \/ VocabStartPlanStep
    \/ VocabWordStep
    \/ VocabPracticeStep

SpecVocab == Init /\ [][NextVocab]_vars

---------------------------------------------------------------------------
(* SpecCycle: the three plans of one cycle, each completed day by day with  *)
(* the submission of its own type, and complete_cycle called at any time.   *)

CycleUnderTest == MinCycle

NextDayOf(key) ==
    {d \in Days : /\ d = plans[key].current_day
                  /\ plans[key].activities[d].status # "COMPLETED"}

CycleStartPlanStep ==
    \E type \in PlanTypes : StartPlan(Actor, type, CycleUnderTest)

CycleSpeakingStep ==
    \E key \in DOMAIN plans : \E d \in NextDayOf(key) :
        /\ TypeOf(key) = "SPEAKING"
        /\ SubmitSpeakingExercise(Actor, key, d, now)

CycleWritingStep ==
    \E key \in DOMAIN plans : \E d \in NextDayOf(key) :
        /\ TypeOf(key) = "WRITING"
        /\ SubmitWriting(Actor, key, d, SpeakingMockDuration, now)

CycleWordStep == GetVocabularyWordForDay(Actor, 1, Some("w1"))

CycleVocabularyStep ==
    \E key \in DOMAIN plans : \E d \in NextDayOf(key) :
        /\ TypeOf(key) = "VOCABULARY"
        /\ UvKey \in DOMAIN vocabulary
        /\ SubmitVocabularyPractice(Actor, UvKey, key, d, TRUE,
                                    SpeakingMockDuration, <<now, now, now, now>>)

CompleteCycleStep == CompleteCycle(Actor, CycleUnderTest, now)

NextCycle ==
    \/ CycleStartPlanStep
    \/ CycleSpeakingStep
    \/ CycleWritingStep
    \/ CycleWordStep
    \/ CycleVocabularyStep
    \/ CompleteCycleStep

SpecCycle == Init /\ [][NextCycle]_vars

---------------------------------------------------------------------------
(* Requests in flight.  Every request runs in a database session of its own *)
(* (get_db); what a session has committed is in the store for every other   *)
(* session to read, and a row a session has loaded stays as it was loaded   *)
(* until the session writes it.  A handler is cut at its commits.           *)

SessionIds == {"s1", "s2"}

Request(op, user, key, day, time_spent, pc, seen, result) ==
    [op |-> op, user |-> user, key |-> key, day |-> day,
     time_spent |-> time_spent, pc |-> pc, seen |-> seen, result |-> result]

\* a session that carries no request
Closed(s) ==
    IF s \in DOMAIN sessions THEN sessions[s].pc = "done" ELSE TRUE

WithSession(s, request) ==
    [x \in DOMAIN sessions \cup {s} |-> IF x = s THEN request ELSE sessions[x]]

\* the handler returns or raises: its session is closed (get_db) and the rows
\* it had loaded are gone with it
Finished(s, result) ==
    WithSession(s, [sessions[s] EXCEPT
                        !.pc = "done", !.seen = Null, !.result = result])

OverallScoreOf(op) ==
    IF op = "submit_speaking_exercise" THEN SpeakingOverallScore
                                       ELSE WritingOverallScore

TableOf(op) ==
    IF op = "submit_speaking_exercise" THEN "speaking_submissions"
                                       ELSE "writing_submissions"

ActivityTypeOf(op) ==
    IF op = "submit_speaking_exercise" THEN "SPEAKING" ELSE "WRITING"

\* start_plan up to its INSERT: the validation and the query for an existing
\* plan (plan_service.py 72-92)
BeginStartPlan(s, user, type, cycle) ==
    /\ Closed(s)
    /\ UNCHANGED refresh_tokens
    /\ UNCHANGED <<plans, vocabulary, daily, cycle_completions, submissions,
                   now, last>>
    /\ LET key == PlanKey(user, type, cycle)
           request == Request("start_plan", user, key, 0, 0, "insert", Null,
                              "pending")
       IN  sessions' = WithSession(s,
                IF cycle < MinCycle \/ cycle > MaxCycle
                THEN [request EXCEPT !.pc = "done",
                                     !.result = "400_BAD_REQUEST"]
                ELSE IF key \in DOMAIN plans
                THEN [request EXCEPT !.pc = "done", !.result = "409_CONFLICT"]
                ELSE request)

\* the rest of start_plan with no unique constraint on user_plans
InsertPlanUnconstrained(s) ==
    /\ s \in DOMAIN sessions
    /\ sessions[s].pc = "insert"
    /\ UNCHANGED refresh_tokens
    /\ UNCHANGED <<vocabulary, daily, cycle_completions, submissions,
                   now, last>>
    /\ plans' = [k \in DOMAIN plans \cup {sessions[s].key} |->
                    IF k = sessions[s].key THEN NewPlan ELSE plans[k]]
    /\ sessions' = Finished(s, "ok")

\* the rest of start_plan (lines 94-115): the plan and its 21 activities are
\* inserted and committed; uq_user_plan_cycle refuses a second row
InsertPlan(s) ==
    /\ s \in DOMAIN sessions
    /\ sessions[s].pc = "insert"
    /\ UNCHANGED refresh_tokens
    /\ UNCHANGED <<vocabulary, daily, cycle_completions, submissions,
                   now, last>>
    /\ IF sessions[s].key \in DOMAIN plans
       THEN /\ sessions' = Finished(s, "IntegrityError")
            /\ UNCHANGED plans
       ELSE /\ plans' = plans @@ (sessions[s].key :> NewPlan)
            /\ sessions' = Finished(s, "ok")

\* a speaking or writing submission up to its first write: the activity is
\* loaded and its owner checked (speaking_service.py 153-169,
\* writing_service.py 181-197)
BeginSubmission(s, op, user, key, day, time_spent) ==
    /\ Closed(s)
    /\ UNCHANGED refresh_tokens
    /\ UNCHANGED <<plans, vocabulary, daily, cycle_completions, submissions,
                   now, last>>
    /\ LET request == Request(op, user, key, day, time_spent, "activity", Null,
                              "pending")
       IN  sessions' = WithSession(s,
                IF key \notin DOMAIN plans \/ day \notin Days
                THEN [request EXCEPT !.pc = "done", !.result = "404_NOT_FOUND"]
                ELSE IF Owner(key) # user
                THEN [request EXCEPT !.pc = "done", !.result = "403_FORBIDDEN"]
                ELSE [request EXCEPT
                        !.seen = Some(plans[key].activities[day])])

\* the activity row after the UPDATE of a session that loaded it as seen: the
\* UPDATE sets the columns the session changed, to the values the session
\* computed from the row it loaded
WrittenActivity(row, seen, score, time_spent) ==
    LET mine == AttemptedActivity(seen, score, time_spent)
    IN  [row EXCEPT
            !.attempts_count = mine.attempts_count,
            !.time_spent_seconds = mine.time_spent_seconds,
            !.status = IF mine.status # seen.status THEN mine.status ELSE @,
            !.score = IF mine.score # seen.score THEN mine.score ELSE @]

\* the submission row and the activity update, up to the first commit
\* (speaking_service.py 250-264, writing_service.py 256-269)
CommitActivity(s) ==
    /\ s \in DOMAIN sessions
    /\ sessions[s].pc = "activity"
    /\ UNCHANGED refresh_tokens
    /\ UNCHANGED <<vocabulary, daily, cycle_completions, now, last>>
    /\ LET r == sessions[s]
       IN  /\ submissions' = submissions \cup {<<TableOf(r.op), r.user>>}
           /\ plans' = [plans EXCEPT ![r.key].activities[r.day] =
                            WrittenActivity(@, Val(r.seen),
                                            OverallScoreOf(r.op), r.time_spent)]
           /\ sessions' = WithSession(s, [r EXCEPT !.pc = "plan_progress"])

\* update_plan_progress: it queries the store again and commits
CommitPlanProgress(s, t) ==
    /\ s \in DOMAIN sessions
    /\ sessions[s].pc = "plan_progress"
    /\ UNCHANGED refresh_tokens
    /\ UNCHANGED <<vocabulary, daily, cycle_completions, submissions, last>>
    /\ plans' = [plans EXCEPT ![sessions[s].key] = UpdatePlanProgress(@, t)]
    /\ now' = t
    /\ sessions' = WithSession(s, [sessions[s] EXCEPT !.pc = "daily_progress"])

\* update_daily_progress, and the handler returns
CommitDailyProgress(s) ==
    /\ s \in DOMAIN sessions
    /\ sessions[s].pc = "daily_progress"
    /\ UNCHANGED refresh_tokens
    /\ UNCHANGED <<plans, vocabulary, cycle_completions, submissions,
                   now, last>>
    /\ daily' = UpdateDailyProgress(daily, sessions[s].user,
                                    ActivityTypeOf(sessions[s].op))
    /\ sessions' = Finished(s, "ok")

\* the request dies between two steps (an exception, a lost connection, the
\* worker stopped): the session is closed, what it committed stays
CloseSession(s) ==
    /\ s \in DOMAIN sessions
    /\ sessions[s].pc # "done"
    /\ UNCHANGED refresh_tokens
    /\ UNCHANGED <<plans, vocabulary, daily, cycle_completions, submissions,
                   now, last>>
    /\ sessions' = Finished(s, "closed")

\* refresh_access_token up to its query of the token row
\* (auth_service.py 126-181): the token decodes, the row is looked up
BeginRefresh(s, token, t) ==
    /\ Closed(s)
    /\ UNCHANGED <<plans, vocabulary, daily, cycle_completions, submissions,
                   refresh_tokens, now, last>>
    /\ LET found == IF token \in DOMAIN refresh_tokens
                    THEN /\ refresh_tokens[token].user_id = SubOf(token)
                         /\ ~refresh_tokens[token].is_revoked
                    ELSE FALSE
           expired == IF found THEN refresh_tokens[token].expires_at < t
                               ELSE FALSE
       IN  sessions' = WithSession(s,
                Request("refresh_access_token", SubOf(token), token, 0, 0,
                        IF found /\ ~expired THEN "revoke" ELSE "done", Null,
                        IF found /\ ~expired THEN "pending"
                                             ELSE "401_UNAUTHORIZED"))

\* db_token.is_revoked = True; commit (auth_service.py 183-184)
RevokeRefreshToken(s) ==
    /\ s \in DOMAIN sessions
    /\ sessions[s].pc = "revoke"
    /\ UNCHANGED <<plans, vocabulary, daily, cycle_completions, submissions,
                   now, last>>
    /\ refresh_tokens' = [refresh_tokens EXCEPT
                            ![sessions[s].key].is_revoked = TRUE]
    /\ sessions' = WithSession(s, [sessions[s] EXCEPT !.pc = "save"])

\* the new token is created and saved, and the handler returns
SaveNewRefreshToken(s, serial, t) ==
    /\ s \in DOMAIN sessions
    /\ sessions[s].pc = "save"
    /\ UNCHANGED <<plans, vocabulary, daily, cycle_completions, submissions,
                   now, last>>
    /\ LET user == sessions[s].user
       IN  IF RejectedByRefreshTokens(Token(user, serial))
           THEN /\ UNCHANGED refresh_tokens
                /\ sessions' = Finished(s, "IntegrityError")
           ELSE /\ refresh_tokens' =
                        SavedRefreshToken(refresh_tokens, user,
                                          Token(user, serial), t)
                /\ sessions' = Finished(s, "ok")

---------------------------------------------------------------------------
(* SpecRace: two sessions at a time on one plan, each starting the plan or  *)
(* submitting a speaking or a writing exercise to one of its first days.    *)

RaceDays == {1, 2}

RaceStartPlanStep ==
    \E s \in SessionIds : \E cycle \in CycleInputs :
        BeginStartPlan(s, Actor, "SPEAKING", cycle)

RaceInsertPlanStep == \E s \in SessionIds : InsertPlan(s)

RaceSubmissionStep ==
    \E s \in SessionIds : \E d \in RaceDays :
        \E op \in {"submit_speaking_exercise", "submit_writing"} :
            /\ LadderKey \in DOMAIN plans =>
                    plans[LadderKey].activities[d].attempts_count < MaxAttempts
            /\ BeginSubmission(s, op, Actor, LadderKey, d, SpeakingMockDuration)

RaceActivityStep == \E s \in SessionIds : CommitActivity(s)

RacePlanProgressStep == \E s \in SessionIds : CommitPlanProgress(s, now)

RaceDailyProgressStep == \E s \in SessionIds : CommitDailyProgress(s)

RaceCloseStep == \E s \in SessionIds : CloseSession(s)

NextRace ==
    \/ RaceStartPlanStep
    \/ RaceInsertPlanStep
    \/ RaceSubmissionStep
    \/ RaceActivityStep
    \/ RacePlanProgressStep
    \/ RaceDailyProgressStep
    \/ RaceCloseStep

SpecRace == Init /\ [][NextRace]_vars

---------------------------------------------------------------------------
(* SpecOwner: one user with a plan and a second user without one; both      *)
(* submit to the daily activities of the first user's plan.                 *)

Intruder == "u2"
OwnerDays == {1, 2}

OwnerStartPlanStep == StartPlan(Actor, "VOCABULARY", CycleUnderTest)

OwnerWordStep ==
    \E user \in {Actor, Intruder} :
        GetVocabularyWordForDay(user, 1, Some("w1"))

OwnerSpeakingStep ==
    \E user \in {Actor, Intruder} :
        \E key \in DOMAIN plans : \E d \in OwnerDays :
            /\ plans[key].activities[d].attempts_count < MaxAttempts
            /\ SubmitSpeakingExercise(user, key, d, now)

OwnerWritingStep ==
    \E user \in {Actor, Intruder} :
        \E key \in DOMAIN plans : \E d \in OwnerDays :
            /\ plans[key].activities[d].attempts_count < MaxAttempts
            /\ SubmitWriting(user, key, d, SpeakingMockDuration, now)

OwnerVocabularyStep ==
    \E user \in {Actor, Intruder} :
        \E key \in DOMAIN plans : \E d \in OwnerDays :
            \E is_correct \in BOOLEAN :
                /\ plans[key].activities[d].attempts_count < MaxAttempts
                /\ <<user, 1>> \in DOMAIN vocabulary =>
                        vocabulary[<<user, 1>>].times_practiced < MaxPractice
                /\ SubmitVocabularyPractice(user, <<user, 1>>, key, d,
                                            is_correct, SpeakingMockDuration,
                                            <<now, now, now, now>>)

NextOwner ==
    \/ OwnerStartPlanStep
    \/ OwnerWordStep
    \/ OwnerSpeakingStep
    \/ OwnerWritingStep
    \/ OwnerVocabularyStep

SpecOwner == Init /\ [][NextOwner]_vars

---------------------------------------------------------------------------
(* SpecClock: one speaking plan completed day by day, with a clock that may  *)
(* advance before any submission, and further submissions to the last day   *)
(* once it is COMPLETED.                                                     *)

ClockKey == <<Actor, "SPEAKING", CycleUnderTest>>

ClockDays(key) ==
    NextDayOf(key) \cup
        {d \in {NumDays} :
            /\ plans[key].activities[d].status = "COMPLETED"
            /\ plans[key].activities[d].attempts_count < MaxAttempts}

ClockStartPlanStep == StartPlan(Actor, "SPEAKING", CycleUnderTest)

ClockSpeakingStep ==
    \E d \in Days : \E t \in now..MaxNow :
        /\ ClockKey \in DOMAIN plans
        /\ d \in ClockDays(ClockKey)
        /\ SubmitSpeakingExercise(Actor, ClockKey, d, t)

NextClock ==
    \/ ClockStartPlanStep
    \/ ClockSpeakingStep

SpecClock == Init /\ [][NextClock]_vars

---------------------------------------------------------------------------
(* SpecAuth: two users who log in, log out, change and reset their          *)
(* passwords, and up to two refresh requests in flight at a time.           *)

AuthUsers == {Actor, Intruder}
TokenSerials == {1, 2, 3}

\* the first user holds up to three tokens, the second one
SerialsOf(user) == IF user = Actor THEN TokenSerials ELSE {1}

AllTokens ==
    {k \in AuthUsers \X TokenSerials : k[2] \in SerialsOf(k[1])}

AuthLoginStep ==
    \E user \in AuthUsers : \E serial \in SerialsOf(user) :
        \E password_ok \in BOOLEAN :
            LoginUser(user, password_ok, serial, now)

AuthLogoutStep ==
    \E user \in AuthUsers :
        \E refresh_token_str \in {Null} \cup {Some(k) : k \in AllTokens} :
            LogoutUser(user, refresh_token_str)

AuthChangePasswordStep ==
    \E user \in AuthUsers : \E current_ok \in BOOLEAN :
        ChangePassword(user, current_ok)

AuthResetPasswordStep ==
    \E user \in AuthUsers : \E token_ok \in BOOLEAN :
        ResetPassword(user, token_ok)

AuthBeginRefreshStep ==
    \E s \in SessionIds : \E token \in AllTokens : BeginRefresh(s, token, now)

AuthRevokeStep == \E s \in SessionIds : RevokeRefreshToken(s)

AuthSaveStep ==
    \E s \in SessionIds : \E serial \in TokenSerials :
        /\ s \in DOMAIN sessions
        /\ serial \in SerialsOf(sessions[s].user)
        /\ SaveNewRefreshToken(s, serial, now)

NextAuth ==
    \/ AuthLoginStep
    \/ AuthLogoutStep
    \/ AuthChangePasswordStep
    \/ AuthResetPasswordStep
    \/ AuthBeginRefreshStep
    \/ AuthRevokeStep
    \/ AuthSaveStep

SpecAuth == Init /\ [][NextAuth]_vars

---------------------------------------------------------------------------
(* Properties of the plan progression (Spec) *)

Activity(key, d) == plans[key].activities[d]

Submissions ==
    {"submit_speaking_exercise", "submit_writing",
     "submit_vocabulary_practice", "complete_activity"}

\* C1: after every submission or complete_activity call, a plan's
\* current_day is its lowest day that is not COMPLETED, or 21 when all of
\* its 21 days are COMPLETED.
C1_CurrentDayIsLowestOpen ==
    \A key \in DOMAIN plans :
        LET cur == plans[key].current_day
        IN  /\ cur \in Days
            /\ \A d \in 1..(cur - 1) : Activity(key, d).status = "COMPLETED"
            /\ Activity(key, cur).status = "COMPLETED" => cur = NumDays

\* C1 witness: a submission has left a later day COMPLETED beyond the
\* current day, which itself is past day 2.
C1_Witness ==
    /\ last.op \in Submissions /\ last.result = "ok"
    /\ \E key \in DOMAIN plans :
        /\ plans[key].current_day > 2
        /\ Activity(key, plans[key].current_day).status # "COMPLETED"
        /\ \E d \in Days : /\ d > plans[key].current_day
                           /\ Activity(key, d).status = "COMPLETED"

\* C2: no daily activity goes from LOCKED straight to COMPLETED.
C2_LockedNeverCompletedDirectly ==
    [][\A key \in DOMAIN plans : \A d \in Days :
            Activity(key, d).status = "LOCKED"
                => plans'[key].activities[d].status # "COMPLETED"]_vars

\* C3: an operation that completes day d < 21 leaves day d+1 AVAILABLE if
\* it was LOCKED, and as it was otherwise.
C3_CompletionUnlocksNextDay ==
    [][\A key \in DOMAIN plans : \A d \in 1..(NumDays - 1) :
            (/\ plans'[key].activities[d].attempts_count
                    = Activity(key, d).attempts_count + 1
             /\ plans'[key].activities[d].status = "COMPLETED")
                => plans'[key].activities[d + 1].status
                    = IF Activity(key, d + 1).status = "LOCKED"
                      THEN "AVAILABLE"
                      ELSE Activity(key, d + 1).status]_vars

\* C4: the stored score of a COMPLETED daily activity never decreases.
C4_ScoreNeverDecreases ==
    [][\A key \in DOMAIN plans : \A d \in Days :
            (Activity(key, d).status = "COMPLETED"
                /\ Activity(key, d).score # Null)
                => /\ plans'[key].activities[d].score # Null
                   /\ Val(plans'[key].activities[d].score)
                        >= Val(Activity(key, d).score)]_vars

---------------------------------------------------------------------------
(* Properties of the vocabulary mastery (SpecVocab) *)

StatusOfLevel(level) ==
    CASE level = 0 -> "NEW"
      [] level \in {1, 2} -> "LEARNING"
      [] level \in {3, 4} -> "REVIEWING"
      [] level = 5 -> "MASTERED"
      [] OTHER -> "none"

HoursOfLevel(level) == <<1, 6, 24, 72, 168, 720>>[level + 1]

Practised(k) ==
    /\ last'.op = "submit_vocabulary_practice"
    /\ last'.result = "ok"
    /\ vocabulary'[k].times_practiced = vocabulary[k].times_practiced + 1

\* C5: the status of a word is the function of its mastery level:
\* 0 NEW, 1-2 LEARNING, 3-4 REVIEWING, 5 MASTERED.
C5_StatusIsFunctionOfLevel ==
    \A k \in DOMAIN vocabulary :
        vocabulary[k].status = StatusOfLevel(vocabulary[k].mastery_level)

\* C6: once set, mastered_at never changes.
C6_MasteredAtSetOnce ==
    [][\A k \in DOMAIN vocabulary :
            vocabulary[k].mastered_at # Null
                => vocabulary'[k].mastered_at = vocabulary[k].mastered_at]_vars

\* C7: the mastery level of every word stays within 0..5.
C7_MasteryInRange ==
    \A k \in DOMAIN vocabulary : vocabulary[k].mastery_level \in 0..5

\* C7 witness: six practices have left a word at level 5, which an
\* unclamped walk of six steps from level 0 cannot reach.
C7_Witness ==
    \E k \in DOMAIN vocabulary :
        /\ vocabulary[k].times_practiced = 6
        /\ vocabulary[k].mastery_level = 5

\* C8: one practice takes level L to min(5, L+1) when correct and to
\* max(0, L-1) when incorrect, whatever the activity and its state; a word at
\* level 2 answered correctly ends at level 3 with status REVIEWING.
C8_LevelTransition ==
    [][\A k \in DOMAIN vocabulary :
            Practised(k) =>
                LET before == vocabulary[k].mastery_level
                    after == vocabulary'[k].mastery_level
                IN  /\ last'.arg = Some(TRUE) =>
                        /\ before < 5 => after = before + 1
                        /\ before >= 5 => after = 5
                        /\ before = 2 => vocabulary'[k].status = "REVIEWING"
                    /\ last'.arg = Some(FALSE) =>
                        /\ before > 0 => after = before - 1
                        /\ before <= 0 => after = 0]_vars

\* C8 witness: a word demoted from level 3 has been answered correctly
\* again and stands at level 3, REVIEWING.
C8_Witness ==
    /\ last.op = "submit_vocabulary_practice" /\ last.result = "ok"
    /\ last.arg = Some(TRUE)
    /\ \E k \in DOMAIN vocabulary :
        /\ vocabulary[k].times_practiced = 5
        /\ vocabulary[k].mastery_level = 3
        /\ vocabulary[k].status = "REVIEWING"

\* C9 as stated: next_review_at - last_reviewed_at is exactly the delay of
\* the resulting level.
C9_DelayIsExact ==
    \A k \in DOMAIN vocabulary :
        vocabulary[k].last_reviewed_at # Null =>
            /\ vocabulary[k].next_review_at # Null
            /\ Val(vocabulary[k].next_review_at)
                    - Val(vocabulary[k].last_reviewed_at)
                = HoursOfLevel(vocabulary[k].mastery_level) * TicksPerHour

\* C9 as amended: next_review_at is a later read of the clock plus the delay
\* of the resulting level, so next_review_at - last_reviewed_at is at least
\* that delay and exceeds it by the time between the two reads.
C9_DelayFromLaterRead ==
    \A k \in DOMAIN vocabulary :
        vocabulary[k].last_reviewed_at # Null =>
            /\ vocabulary[k].next_review_at # Null
            /\ LET delay == HoursOfLevel(vocabulary[k].mastery_level)
                                * TicksPerHour
                   base == Val(vocabulary[k].next_review_at) - delay
               IN  /\ Val(vocabulary[k].last_reviewed_at) <= base
                   /\ base <= now

\* C9 witness: a word has reached level 3 and its next review lies more
\* than three days after last_reviewed_at.
C9_Witness ==
    \E k \in DOMAIN vocabulary :
        /\ vocabulary[k].mastery_level = 3
        /\ vocabulary[k].last_reviewed_at # Null
        /\ Val(vocabulary[k].next_review_at)
                - Val(vocabulary[k].last_reviewed_at)
            > 72 * TicksPerHour

---------------------------------------------------------------------------
(* Properties of the cycle completion (SpecCycle) *)

AllDaysCompleted(key) ==
    /\ key \in DOMAIN plans
    /\ \A d \in Days : Activity(key, d).status = "COMPLETED"

\* C10: with the Speaking, Vocabulary and Writing plans of a cycle all
\* completed, complete_cycle succeeds and leaves exactly one CycleCompletion
\* for the user and cycle.
C10_CompleteCycleSucceeds ==
    (/\ last.op = "complete_cycle"
     /\ \A type \in PlanTypes :
            AllDaysCompleted(PlanKey(Actor, type, CycleUnderTest)))
        => /\ last.result = "ok"
           /\ Cardinality(CompletionsOf(Actor, CycleUnderTest)) = 1

C13_IncompletePlanIsNamed ==
    (/\ last.op = "complete_cycle"
     /\ \E k \in PlansOfCycle(Actor, CycleUnderTest) :
            CompletedCount(plans[k]) < NumDays)
        => /\ last.result = "400_BAD_REQUEST"
           /\ last.arg # Null
           /\ \E k \in PlansOfCycle(Actor, CycleUnderTest) :
                    /\ TypeOf(k) = Val(last.arg)
                    /\ CompletedCount(plans[k]) < NumDays
           /\ CompletionsOf(Actor, CycleUnderTest) = {}

\* C14: complete_cycle called while the user has no plan of the cycle and no
\* CycleCompletion fails as NotFound (404) and creates no CycleCompletion.
C14_NoPlanIsNotFound ==
    (/\ last.op = "complete_cycle"
     /\ PlansOfCycle(Actor, CycleUnderTest) = {})
        => /\ last.result = "404_NOT_FOUND"
           /\ CompletionsOf(Actor, CycleUnderTest) = {}


---------------------------------------------------------------------------
(* Properties of start_plan (Spec, SpecCycle) *)

\* C16: a start_plan call with a cycle number outside 1..5 fails as
\* InvalidArgument (400) and leaves the plans and their activities as they
\* were; the cycle number of every plan lies in 1..5.
C16_CycleOutOfRangeRejected ==
    /\ [](\A key \in DOMAIN plans : CycleOf(key) \in MinCycle..MaxCycle)
    /\ []((last.op = "start_plan" /\ Val(last.arg) \notin MinCycle..MaxCycle)
            => last.result = "400_BAD_REQUEST")
    /\ [][(last'.op = "start_plan" /\ Val(last'.arg) \notin MinCycle..MaxCycle)
            => plans' = plans]_vars

\* C16 witness: a plan has a completed day and a start_plan call with cycle 6
\* has just been refused.
C16_Witness ==
    /\ last = Call("start_plan", Actor, Some(MaxCycle + 1),
                  "400_BAD_REQUEST")
    /\ \E key \in DOMAIN plans : CompletedCount(plans[key]) > 0

\* C17: a successful start_plan call adds one plan with the 21 daily
\* activities of days 1..21, day 1 AVAILABLE, days 2..21 LOCKED, each with no
\* attempt, no time spent and no score, and with current_day 1 and
\* completion_percentage 0.
C17_NewPlanShape ==
    [][(last'.op = "start_plan" /\ last'.result = "ok") =>
            \E key \in DOMAIN plans' :
                /\ key \notin DOMAIN plans
                /\ DOMAIN plans' = DOMAIN plans \cup {key}
                /\ DOMAIN plans'[key].activities = 1..21
                /\ \A d \in 1..21 :
                    LET activity == plans'[key].activities[d]
                    IN  /\ activity.status = IF d = 1 THEN "AVAILABLE"
                                                      ELSE "LOCKED"
                        /\ activity.attempts_count = 0
                        /\ activity.time_spent_seconds = 0
                        /\ activity.score = Null
                /\ plans'[key].current_day = 1
                /\ plans'[key].completion_percentage = 0]_vars

\* C17 witness: a plan has just been started next to a plan of the same cycle
\* that has completed days.
C17_Witness ==
    /\ last.op = "start_plan" /\ last.result = "ok"
    /\ \E k1, k2 \in DOMAIN plans :
        /\ CompletedCount(plans[k1]) > 1
        /\ plans[k2] = NewPlan

---------------------------------------------------------------------------
(* Properties of requests in flight (SpecRace) *)

\* the step starts a request in session s
Begins(s) ==
    /\ Closed(s)
    /\ s \in DOMAIN sessions'
    /\ IF s \in DOMAIN sessions THEN sessions'[s] # sessions[s] ELSE TRUE

\* the step ends the request of session s with the given result
Ends(s, result) ==
    /\ ~Closed(s)
    /\ sessions'[s].pc = "done"
    /\ sessions'[s].result = result

StartedPlan(s) ==
    /\ s \in DOMAIN sessions
    /\ sessions[s].op = "start_plan"
    /\ sessions[s].result = "ok"

\* C15: a start_plan call for a tuple that has a plan fails as Conflict (409)
\* and leaves the plans and their activities as they were; a plan row is
\* only ever inserted for a tuple that has none, so that of the start_plan
\* calls for one tuple, however interleaved, at most one creates a plan.
C15_OnePlanPerTuple ==
    /\ [](\A s1, s2 \in SessionIds :
            (StartedPlan(s1) /\ StartedPlan(s2) /\ s1 # s2)
                => sessions[s1].key # sessions[s2].key)
    /\ [][\A s \in SessionIds :
            /\ (/\ Begins(s)
                /\ sessions'[s].op = "start_plan"
                /\ sessions'[s].key \in DOMAIN plans)
                    => /\ sessions'[s].pc = "done"
                       /\ sessions'[s].result = "409_CONFLICT"
                       /\ plans' = plans
            /\ (Ends(s, "ok") /\ sessions[s].op = "start_plan")
                    => /\ sessions[s].key \notin DOMAIN plans
                       /\ DOMAIN plans' = DOMAIN plans \cup {sessions[s].key}
                       /\ \A k \in DOMAIN plans : plans'[k] = plans[k]]_vars

\* C15 witness: of two start_plan calls that both found no plan, the second
\* to insert was refused by uq_user_plan_cycle, and a later call for the same
\* tuple was answered with Conflict.
C15_Witness ==
    \E s1, s2 \in DOMAIN sessions :
        /\ sessions[s1].op = "start_plan"
        /\ sessions[s2].op = "start_plan"
        /\ sessions[s1].key = sessions[s2].key
        /\ sessions[s1].result = "409_CONFLICT"
        /\ sessions[s2].result = "IntegrityError"


\* C18: in every committed state, a plan with a COMPLETED daily activity
\* counts it (completion_percentage, status and current_day are those of its
\* completed activities) and its owner's daily aggregate records a
\* completed exercise.
C18_SubmissionIsAtomic ==
    \A key \in DOMAIN plans :
        LET plan == plans[key]
            count == Cardinality({d \in Days :
                            plan.activities[d].status = "COMPLETED"})
        IN  count > 0 =>
                /\ plan.completion_percentage = (count * 10000) \div NumDays
                /\ plan.status = IF count = NumDays THEN "COMPLETED"
                                                    ELSE "IN_PROGRESS"
                /\ plan.activities[plan.current_day].status = "COMPLETED"
                        => plan.current_day = NumDays
                /\ \A d \in 1..(plan.current_day - 1) :
                        plan.activities[d].status = "COMPLETED"
                /\ Owner(key) \in DOMAIN daily
                /\ \/ daily[Owner(key)].speaking_completed
                   \/ daily[Owner(key)].vocabulary_completed
                   \/ daily[Owner(key)].writing_completed

\* C19: the write of a submission adds one attempt and the submission's time
\* to what the store holds for the daily activity at that moment, and leaves
\* it with the higher of the stored score and the submission's score; so two
\* submissions to one daily activity end as if run one after the other.
C19_ConcurrentSubmissionsSerialize ==
    [][\A s \in SessionIds :
        (/\ ~Closed(s)
         /\ sessions[s].pc = "activity"
         /\ sessions'[s].pc = "plan_progress")
            => LET r == sessions[s]
                   before == plans[r.key].activities[r.day]
                   after == plans'[r.key].activities[r.day]
                   score == OverallScoreOf(r.op)
               IN  /\ after.attempts_count = before.attempts_count + 1
                   /\ after.time_spent_seconds
                        = before.time_spent_seconds + r.time_spent
                   /\ after.status = "COMPLETED"
                   /\ after.score # Null
                   /\ Val(after.score) =
                        IF before.score # Null /\ Val(before.score) > score
                        THEN Val(before.score) ELSE score]_vars


---------------------------------------------------------------------------
(* Properties of the owner check (SpecOwner) *)

PracticeSubmissions ==
    {"submit_speaking_exercise", "submit_writing",
     "submit_vocabulary_practice"}

\* the last call was a submission by a user who owns none of the plans, to a
\* daily activity that exists (for a vocabulary practice: with a
\* user_vocabulary row of the caller's own)
ForeignSubmission ==
    /\ last.op \in PracticeSubmissions
    /\ plans # << >>
    /\ \A key \in DOMAIN plans : Owner(key) # last.user_id
    /\ last.op = "submit_vocabulary_practice"
            => <<last.user_id, 1>> \in DOMAIN vocabulary

---------------------------------------------------------------------------
(* Properties of the plan's progress fields (Spec) *)

CountOfCompleted(key) ==
    Cardinality({d \in 1..21 : plans[key].activities[d].status = "COMPLETED"})

\* C21: after every submission or complete_activity call, a plan's
\* completion_percentage is 100 * (its number of COMPLETED daily activities)
\* / 21 (kept in hundredths of a percent), and so lies in 0..100.
C21_PercentageOfCompleted ==
    \A key \in DOMAIN plans :
        /\ plans[key].completion_percentage
                = (100 * 100 * CountOfCompleted(key)) \div 21
        /\ plans[key].completion_percentage \in 0..(100 * 100)

\* C21 witness: a submission has left a plan with 20 of its 21 daily
\* activities COMPLETED, at 95.23 percent.
C21_Witness ==
    /\ last.op \in Submissions /\ last.result = "ok"
    /\ \E key \in DOMAIN plans :
        /\ CountOfCompleted(key) = 20
        /\ plans[key].completion_percentage = 9523

\* C22 as stated: a plan's status is NOT_STARTED with no COMPLETED daily
\* activity (a freshly started plan included), IN_PROGRESS with 1..20 and
\* COMPLETED with 21.
C22_StatusByCount ==
    \A key \in DOMAIN plans :
        plans[key].status =
            IF CountOfCompleted(key) = 0 THEN "NOT_STARTED"
            ELSE IF CountOfCompleted(key) = 21 THEN "COMPLETED"
            ELSE "IN_PROGRESS"

\* C22 as amended: a plan's status is IN_PROGRESS with 0..20 COMPLETED daily
\* activities (a freshly started plan included) and COMPLETED with 21; no
\* plan is ever NOT_STARTED.
C22_StatusByCountFromInProgress ==
    \A key \in DOMAIN plans :
        plans[key].status =
            IF CountOfCompleted(key) = 21 THEN "COMPLETED" ELSE "IN_PROGRESS"

\* C22 witness: a submission has brought the 21st daily activity of a plan
\* to COMPLETED, and the plan's status is COMPLETED.
C22_Witness ==
    /\ last.op \in Submissions /\ last.result = "ok"
    /\ \E key \in DOMAIN plans :
        /\ CountOfCompleted(key) = 21
        /\ plans[key].status = "COMPLETED"


\* C23: a plan's completed_at is set exactly once, by the operation that
\* brings its 21st daily activity to COMPLETED (it is set if and only if all
\* 21 are COMPLETED), and no later submission to the plan changes it.
C23_CompletedAtSetOnce ==
    /\ [](\A key \in DOMAIN plans :
            plans[key].completed_at # Null <=> CountOfCompleted(key) = 21)
    /\ [][\A key \in DOMAIN plans :
            plans[key].completed_at # Null =>
                plans'[key].completed_at = plans[key].completed_at]_vars


\* the score a successful speaking, writing or vocabulary submission carries
ScoreOfCall(call) ==
    IF call.op = "submit_vocabulary_practice"
    THEN IF call.arg = Some(TRUE) THEN 100 * 100 ELSE 50 * 100
    ELSE Val(call.arg)

\* C24: a speaking, writing or vocabulary submission whose score strictly
\* exceeds the stored score of an already COMPLETED daily activity replaces
\* the stored score (a vocabulary activity completed with 50 and then
\* answered correctly ends with 100), so the stored score is the maximum of
\* the submitted scores.
C24_BetterScoreReplaces ==
    [][\A key \in DOMAIN plans : \A d \in Days :
        (/\ last'.op \in PracticeSubmissions
         /\ last'.result = "ok"
         /\ plans'[key].activities[d].attempts_count
                = Activity(key, d).attempts_count + 1
         /\ Activity(key, d).status = "COMPLETED"
         /\ Activity(key, d).score # Null
         /\ ScoreOfCall(last') > Val(Activity(key, d).score))
        => plans'[key].activities[d].score = Some(ScoreOfCall(last'))]_vars

\* C25: every daily activity after day 1 that is AVAILABLE or COMPLETED has
\* its previous day COMPLETED.
C25_OpenOnlyAfterPredecessor ==
    \A key \in DOMAIN plans : \A d \in 2..21 :
        Activity(key, d).status \in {"AVAILABLE", "COMPLETED"}
            => Activity(key, d - 1).status = "COMPLETED"


---------------------------------------------------------------------------
(* Properties of the attempt counters (SpecRace, SpecOwner) *)

Counters(activity) ==
    <<activity.attempts_count, activity.time_spent_seconds>>

\* C26: every accepted speaking, writing or vocabulary submission adds 1 to
\* the attempts_count of its daily activity and its elapsed seconds to
\* time_spent_seconds, whether or not the score or status changes, and
\* changes the counters of no other activity; a refused submission changes
\* none.  So after n accepted submissions to a daily activity its
\* attempts_count is n and its time_spent_seconds the sum of their
\* durations.  (A service call run to its end is seen in last; the write of
\* a request in flight is its step from "activity" to "plan_progress".)
C26_EverySubmissionCounted ==
    /\ [][last'.op \in PracticeSubmissions =>
            IF last'.result = "ok"
            THEN \E key \in DOMAIN plans : \E d \in Days :
                    /\ Counters(plans'[key].activities[d])
                         = <<Activity(key, d).attempts_count + 1,
                             Activity(key, d).time_spent_seconds + 45>>
                    /\ \A k2 \in DOMAIN plans : \A d2 \in Days :
                            <<k2, d2>> # <<key, d>> =>
                                Counters(plans'[k2].activities[d2])
                                    = Counters(Activity(k2, d2))
            ELSE \A key \in DOMAIN plans : \A d \in Days :
                    Counters(plans'[key].activities[d])
                        = Counters(Activity(key, d))]_vars
    /\ [][\A s \in SessionIds :
            (/\ ~Closed(s)
             /\ sessions[s].pc = "activity"
             /\ sessions'[s].pc = "plan_progress")
                => LET r == sessions[s]
                   IN  \A key \in DOMAIN plans : \A d \in Days :
                        Counters(plans'[key].activities[d]) =
                            IF <<key, d>> = <<r.key, r.day>>
                            THEN <<Activity(key, d).attempts_count + 1,
                                   Activity(key, d).time_spent_seconds
                                        + r.time_spent>>
                            ELSE Counters(Activity(key, d))]_vars

---------------------------------------------------------------------------
(* Properties of completion (Spec) *)

\* C27: a COMPLETED daily activity stays COMPLETED; so a plan's number of
\* COMPLETED daily activities, its completion_percentage and its
\* current_day never decrease, and a COMPLETED plan stays COMPLETED.
C27_CompletedIsTerminal ==
    [][\A key \in DOMAIN plans :
        /\ key \in DOMAIN plans'
        /\ \A d \in Days :
            Activity(key, d).status = "COMPLETED"
                => plans'[key].activities[d].status = "COMPLETED"
        /\ Cardinality({d \in Days :
                plans'[key].activities[d].status = "COMPLETED"})
             >= CountOfCompleted(key)
        /\ plans'[key].completion_percentage
                >= plans[key].completion_percentage
        /\ plans'[key].current_day >= plans[key].current_day
        /\ plans[key].status = "COMPLETED"
                => plans'[key].status = "COMPLETED"]_vars

\* C27 witness: a COMPLETED plan has taken a further submission to its
\* first day, which did not raise that day's score.
C27_Witness ==
    /\ last.op \in PracticeSubmissions /\ last.result = "ok"
    /\ \E key \in DOMAIN plans :
        /\ plans[key].status = "COMPLETED"
        /\ Activity(key, 1).attempts_count = 2
        /\ Activity(key, 1).score # Null
        /\ ScoreOfCall(last) < Val(Activity(key, 1).score)


\* C28: in every state reached through start_plan and speaking, writing and
\* vocabulary submissions, the daily activity at the current_day of a plan
\* that is not fully completed is AVAILABLE, never LOCKED.
C28_CurrentDayIsAvailable ==
    \A key \in DOMAIN plans :
        CountOfCompleted(key) < 21
            => Activity(key, plans[key].current_day).status = "AVAILABLE"


---------------------------------------------------------------------------
(* Properties of the refresh tokens (SpecAuth) *)

Refreshed(s) ==
    /\ s \in DOMAIN sessions
    /\ sessions[s].op = "refresh_access_token"
    /\ sessions[s].result = "ok"

\* C29: a refresh token is exchanged successfully at most once: once
\* refresh_access_token has succeeded with a token the token is revoked and
\* every refresh presenting it afterwards fails, and of two
\* refresh_access_token calls presenting the same token at the same time at
\* most one succeeds.
C29_RefreshTokenUsedOnce ==
    /\ [](\A s \in SessionIds :
            Refreshed(s) => refresh_tokens[sessions[s].key].is_revoked)
    /\ [][\A s \in SessionIds :
            (/\ Begins(s)
             /\ sessions'[s].op = "refresh_access_token"
             /\ IF sessions'[s].key \in DOMAIN refresh_tokens
                THEN refresh_tokens[sessions'[s].key].is_revoked ELSE FALSE)
                => /\ sessions'[s].pc = "done"
                   /\ sessions'[s].result = "401_UNAUTHORIZED"]_vars
    /\ [](\A s1, s2 \in SessionIds :
            (Refreshed(s1) /\ Refreshed(s2) /\ s1 # s2)
                => sessions[s1].key # sessions[s2].key)


\* the call revoked all tokens of its user (the steps of a refresh leave
\* last alone and change sessions; a service call run to its end does not)
RevokesAll(call) ==
    /\ call.op \in {"logout_user", "change_password", "reset_password"}
    /\ call.result = "ok"
    /\ call.arg # Null

\* C30: when change_password, reset_password or logout_user without a token
\* completes for a user, every refresh token issued to that user before is
\* revoked; a revoked token is never unrevoked (nor its row removed); and no
\* refresh_access_token call with a token issued to the user before the
\* operation succeeds after it.
C30_RevokedForGood ==
    [][/\ (RevokesAll(last') /\ UNCHANGED sessions) =>
            \A k \in DOMAIN refresh_tokens :
                refresh_tokens[k].user_id = last'.user_id
                    => refresh_tokens'[k].is_revoked
       /\ \A k \in DOMAIN refresh_tokens :
            /\ k \in DOMAIN refresh_tokens'
            /\ refresh_tokens[k].is_revoked => refresh_tokens'[k].is_revoked
       /\ \A s \in SessionIds :
            (/\ Ends(s, "ok")
             /\ sessions[s].op = "refresh_access_token"
             /\ RevokesAll(last)
             /\ last.user_id = SubOf(sessions[s].key))
                => sessions[s].key[2] \notin Val(last.arg)]_vars

===========================================================================

